---- MODULE Spec2Model ----
(***************************************************************************)
(* Model of the Columbia Weather Systems MicroServer driver                 *)
(* (bin/user/columbia_ms.py): the polling generator genLoopPackets, its     *)
(* scheduler _wait_for_next_poll_interval, the retrieval get_data and the   *)
(* parser parse_data.                                                       *)
(*                                                                          *)
(* Conventions.                                                             *)
(*  - Python None is the empty tuple <<>>, a present value v is <<v>>.      *)
(*  - Floating point readings are fixed point numbers in tenths             *)
(*    (5.3 is 53).                                                          *)
(*  - time.time() is the variable now, in whole seconds.  The code only     *)
(*    uses int(time.time()) modulo the poll interval and the second of the  *)
(*    minute, so the clock is kept modulo Period, a common multiple of the  *)
(*    two.                                                                  *)
(*  - An exception is the name of its class; "none" is a normal return.     *)
(***************************************************************************)
EXTENDS Integers, Sequences, FiniteSets, TLC

VARIABLES
    polls_per_minute,       \* self.polls_per_minute
    poll_lead_seconds,      \* self.poll_lead_seconds
    quick_retries,          \* self.quick_retries
    last_rain_total,        \* self.last_rain_total
    now,                    \* int(time.time()), modulo Period
    pc,                     \* position of the running code
    pkt_grp,                \* genLoopPackets: pkt_grp
    ntries,                 \* genLoopPackets: ntries
    last_poll_this_minute,  \* genLoopPackets: last_poll_this_minute
    idx,                    \* genLoopPackets: position of the for loop in pkt_grp.items()
    packet,                 \* the record handed to the consumer by the last yield
    raised,                 \* exception that left the running code, "none" if none
    data,                   \* argument of the function under study (parser, retrieval)
    result,                 \* value returned by the function under study
    hist                    \* history of the current cycle / call (observation only)

vars == <<polls_per_minute, poll_lead_seconds, quick_retries, last_rain_total, now,
          pc, pkt_grp, ntries, last_poll_this_minute, idx, packet, raised, data,
          result, hist>>

----------------------------------------------------------------------------
(* Bounds of the model *)

MaxQuick == 1       \* quick_retries ranges over 0..MaxQuick
MaxTries == 3       \* consecutive failures followed by the model
MaxChildren == 2    \* child elements of a document
MaxJunk == 1        \* characters of junk after the closing sequence

None == <<>>
Some(v) == <<v>>

----------------------------------------------------------------------------
(* Static tables *)

DEFAULT_SENSOR_MAP ==
    [windSpeed |-> "mtWindSpeed", windDir |-> "mtAdjWindDir",
     windGust |-> "mt2MinWindGustSpeed", windGustDir |-> "mt2MinWindGustDir",
     outTemp |-> "mtTemp1", windchill |-> "mtWindChill", dewpoint |-> "mtDewPoint",
     heatindex |-> "mtHeatIndex", extraTemp1 |-> "mtTemp_2", extraTemp2 |-> "mtTemp_3",
     extraTemp3 |-> "mtTemp_4", rainTotal |-> "mtRainThisMonth",
     rainRate |-> "mtRainRate", barometer |-> "mtAdjBaromPress",
     outHumidity |-> "mtRelHumidity", radiation |-> "mtSolarRadiaton"]

\* weewx.US, weewx.METRIC, weewx.METRICWX
US == 1
METRIC == 16
METRICWX == 17

UNITS_MAP ==
    [degreeC |-> METRICWX, degreeF |-> US, inchesHg |-> US, inchesPerHour |-> US,
     inchesRain |-> US, kmPerHour |-> METRIC, metersPerSecond |-> METRICWX,
     mmPerHour |-> METRICWX, mmRain |-> METRICWX, mph |-> US]

XML_INPUT_ELEMENTS ==
    [mtWindSpeed |-> "wind", mtAdjWindDir |-> "wind", mt2MinWindGustSpeed |-> "wind",
     mt2MinWindGustDir |-> "wind",
     mtTemp1 |-> "temp", mtWindChill |-> "temp", mtDewPoint |-> "temp",
     mtHeatIndex |-> "temp", mtTemp_2 |-> "temp", mtTemp_3 |-> "temp", mtTemp_4 |-> "temp",
     mtRainThisMonth |-> "rain", mtRainRate |-> "rain",
     mtAdjBaromPress |-> "pressure",
     mtRelHumidity |-> "generic", mtSolarRadiaton |-> "generic"]

XML_INPUT_UNIT_ELEMENTS ==
    {"mtWindSpeed", "mtTemp1", "mtRainRate", "mtRelHumidity", "mtAdjBaromPress"}

----------------------------------------------------------------------------
(* Documents.  A document is the text                                       *)
(*     head  children  closing-sequence                                     *)
(* head     "oriondata": the text starts with '<oriondata', root oriondata  *)
(*          "decl": an XML declaration precedes the root oriondata          *)
(*          "other": a root element of another name                         *)
(* children the child elements of the root, each with its tag, its name and *)
(*          unit attributes (Absent when missing) and its text ("" when the  *)
(*          element is empty)                                               *)
(* keep     how many characters of the closing tag of the root are there    *)
(*          (ClosingLen: all of it)                                         *)
(* junk     the characters that follow: "NUL" or "NL" (a newline)           *)

Absent == "(absent)"

Elem(tag, name, unit, text) == [tag |-> tag, name |-> name, unit |-> unit, text |-> text]

\* The literal '</oriondata>' has 12 characters, its prefix '</ori' has 5.
ClosingLen == 12
OriLen == 5

\* float(): the numeric texts of the model and their values in tenths
FloatTexts == [t \in {"10.0", "5.0", "5.3"} |->
                 CASE t = "10.0" -> 100 [] t = "5.0" -> 50 [] t = "5.3" -> 53]

----------------------------------------------------------------------------
(* ColumbiaMicroServerStation.parse_data *)

Raise(kind) == [raised |-> kind, value |-> None]
Return(v) == [raised |-> "none", value |-> Some(v)]

\* data.startswith('<oriondata') and not data.endswith('</oriondata>')
NeedsRepair(d) == d.head = "oriondata" /\ ~(d.keep = ClosingLen /\ d.junk = <<>>)

\* '.' does not match a newline and, without re.MULTILINE, '$' matches at the
\* end of the text or before a newline that ends the text
DotStarDollar(junk) ==
    \A i \in 1..Len(junk) : junk[i] = "NL" => i = Len(junk)

\* the pattern with its group made mandatory: '</ori(ondata).*$'
ReSub_WholeName(d) ==
    IF d.keep >= ClosingLen - 1 /\ DotStarDollar(d.junk)
    THEN [d EXCEPT !.keep = ClosingLen,
                   !.junk = IF d.junk # <<>> /\ d.junk[Len(d.junk)] = "NL"
                            THEN <<"NL">> ELSE <<>>]
    ELSE d

\* re.sub('</ori(ondata)?.*$', '</oriondata>', data)
ReSub(d) ==
    IF d.keep >= OriLen /\ DotStarDollar(d.junk)
    THEN [d EXCEPT !.keep = ClosingLen,
                   !.junk = IF d.junk # <<>> /\ d.junk[Len(d.junk)] = "NL"
                            THEN <<"NL">> ELSE <<>>]
    ELSE d

Repair(d) == IF NeedsRepair(d) THEN ReSub(d) ELSE d

\* ElementTree.fromstring accepts the text: the elements are well formed, the
\* root is closed and only white space follows it
WellFormed(d) ==
    d.wf /\ d.keep = ClosingLen /\ \A i \in 1..Len(d.junk) : d.junk[i] = "NL"

RootTag(d) == IF d.head = "other" THEN "other" ELSE "oriondata"

\* index of the group pkt_type in the dictionary pkt_grp (0 when it has none);
\* a dictionary keeps its keys in the order of their first insertion
GroupIndex(grp, pkt_type) ==
    IF \E i \in 1..Len(grp) : grp[i].type = pkt_type
    THEN CHOOSE i \in 1..Len(grp) : grp[i].type = pkt_type
    ELSE 0

\* pkt_grp[pkt_type][key] = v
SetField(pkt, key, v) == [k \in (DOMAIN pkt) \cup {key} |-> IF k = key THEN v ELSE pkt[k]]

EmptyPkt == [k \in {} |-> 0]

\* if not pkt_type in pkt_grp: pkt_grp[pkt_type] = dict()
EnsureGroup(grp, pkt_type) ==
    IF GroupIndex(grp, pkt_type) = 0
    THEN Append(grp, [type |-> pkt_type, pkt |-> EmptyPkt])
    ELSE grp

PutField(grp, pkt_type, key, v) ==
    [grp EXCEPT ![GroupIndex(grp, pkt_type)].pkt = SetField(@, key, v)]

\* the text is converted before the name is looked up
ParseChild_FloatFirst(child, grp) ==
    IF child.name = Absent THEN Raise("KeyError")
    ELSE IF child.text = "" THEN Raise("TypeError")
    ELSE IF child.text \notin DOMAIN FloatTexts THEN Raise("ValueError")
    ELSE IF ~(child.tag = "meas" /\ child.name \in DOMAIN XML_INPUT_ELEMENTS)
    THEN Return(grp)
    ELSE
      LET pkt_type == XML_INPUT_ELEMENTS[child.name]
          g1 == EnsureGroup(grp, pkt_type)
          unitElem == child.name \in XML_INPUT_UNIT_ELEMENTS
      IN  IF unitElem /\ pkt_type # "generic" /\ child.unit = Absent
          THEN Raise("KeyError")
          ELSE
            LET g2 == IF unitElem
                      THEN PutField(g1, pkt_type, "base_units",
                                    IF pkt_type = "generic" THEN "generic" ELSE child.unit)
                      ELSE g1
            IN  Return(PutField(g2, pkt_type, child.name, FloatTexts[child.text]))

\* The body of the for loop over the children, for one child and the
\* dictionary built so far: the dictionary afterwards, or the exception.
ParseChild(child, grp) ==
    IF child.name = Absent THEN Raise("KeyError")          \* child.attrib['name']
    ELSE IF ~(child.tag = "meas" /\ child.name \in DOMAIN XML_INPUT_ELEMENTS)
    THEN Return(grp)
    ELSE
      LET pkt_type == XML_INPUT_ELEMENTS[child.name]
          g1 == EnsureGroup(grp, pkt_type)
          unitElem == child.name \in XML_INPUT_UNIT_ELEMENTS
      IN  IF unitElem /\ pkt_type # "generic" /\ child.unit = Absent
          THEN Raise("KeyError")                           \* child.attrib['unit']
          ELSE
            LET g2 == IF unitElem
                      THEN PutField(g1, pkt_type, "base_units",
                                    IF pkt_type = "generic" THEN "generic" ELSE child.unit)
                      ELSE g1
            IN  IF child.text = "" THEN Raise("TypeError")     \* float(None)
                ELSE IF child.text \notin DOMAIN FloatTexts
                THEN Raise("ValueError")                       \* float('abc')
                ELSE Return(PutField(g2, pkt_type, child.name, FloatTexts[child.text]))

RECURSIVE ParseChildren(_, _, _)
ParseChildren(children, i, grp) ==
    IF i > Len(children) THEN Return(grp)
    ELSE LET r == ParseChild(children[i], grp)
         IN  IF r.raised # "none" THEN r
             ELSE ParseChildren(children, i + 1, r.value[1])

\* the try block: what it returns or raises before the except clause
ParseTry(d) ==
    IF ~WellFormed(d) THEN Raise("ParseError")
    ELSE IF RootTag(d) # "oriondata" THEN Raise("ParseError")
    ELSE IF d.children = <<>> THEN Raise("IndexError")         \* elements[0]
    ELSE IF d.children[1].tag # "meas" THEN Raise("ParseError")
    ELSE ParseChildren(d.children, 1, <<>>)

\* except ElementTree.ParseError as e: raise weewx.WeeWxIOError(e)
ExceptParseError(r) == IF r.raised = "ParseError" THEN Raise("WeeWxIOError") ELSE r

parse_data(d) == ExceptParseError(ParseTry(Repair(d)))

----------------------------------------------------------------------------
(* ColumbiaMicroServerStation.get_data.  A response is what the network does *)
(* with one request:                                                          *)
(*   open   "ok", or the exception urlopen raises                             *)
(*   code   the status of the response                                        *)
(*   clen   whether the response has a Content-Length header                  *)
(*   read   "ok", or the exception response.read raises                       *)

Responses ==
    [open : {"ok", "URLError", "socket.error"}, code : {200, 404},
     clen : BOOLEAN, read : {"ok", "socket.timeout"}]

get_data(resp, d) ==
    IF resp.open # "ok" THEN Raise("WeeWxIOError")          \* both except clauses
    ELSE IF resp.code # 200 THEN Raise("WeeWxIOError")
    ELSE IF ~resp.clen THEN Raise("TypeError")              \* int(None)
    ELSE IF resp.read # "ok" THEN Raise(resp.read)
    ELSE Return(d)

\* data = get_data(url); pkt_grp = parse_data(data)
Retrieve(resp, d) ==
    LET r == get_data(resp, d)
    IN  IF r.raised # "none" THEN r ELSE parse_data(r.value[1])

----------------------------------------------------------------------------
(* The poll scheduler *)

\* int(self.poll_interval), where self.poll_interval = 60 / self.polls_per_minute
PollInterval(N) == 60 \div N

\* the clock is kept modulo a common multiple of the minute and the interval
Period(N) == IF 60 % PollInterval(N) = 0 THEN 60 ELSE 60 * PollInterval(N)

\* time.gmtime(time.time()).tm_sec
tm_sec(t) == t % 60

\* the lead is left out of the condition
IsPollInstant_NoLead(t, L, N) == t % PollInterval(N) = 0

\* the negated condition of the while loop of _wait_for_next_poll_interval
IsPollInstant(t, L, N) == (t + L) % PollInterval(N) = 0

\* range(last_poll_time-1, last_poll_time+1): the window misses its last second
IsLastPoll_Narrow(t, L) ==
    LET last_poll_time == 60 - L
    IN  tm_sec(t) \in (last_poll_time - 1)..last_poll_time

\* the value _wait_for_next_poll_interval returns at second t
IsLastPoll(t, L) ==
    LET last_poll_time == 60 - L
    IN  tm_sec(t) \in (last_poll_time - 1)..(last_poll_time + 1)

Tick(t) == (t + 1) % Period(polls_per_minute)

----------------------------------------------------------------------------
(* Packet assembly: the body of the for loop of genLoopPackets *)

\* the group is withheld: pkt_type != 'wind' and not last_poll_this_minute
Withheld(pkt_type, flag) == pkt_type # "wind" /\ ~flag

\* weewx.units.conversionDict['knot']['miles_per_hour'], on tenths
KnotToMph(x) == (x * 1150779) \div 1000000

\* weewx.wxformulas.calculate_rain(newtotal, oldtotal)
calculate_rain(newtotal, oldtotal) ==
    IF newtotal # None /\ oldtotal # None
    THEN IF newtotal[1] >= oldtotal[1] THEN Some(newtotal[1] - oldtotal[1]) ELSE None
    ELSE None

\* every field of the sensor map is set, to 0 when its source is not in the group
MapFields_AllFields(pkt, packet_time) ==
    [f \in (DOMAIN DEFAULT_SENSOR_MAP) \cup {"dateTime"} |->
        IF f = "dateTime" THEN packet_time
        ELSE IF DEFAULT_SENSOR_MAP[f] \in DOMAIN pkt THEN pkt[DEFAULT_SENSOR_MAP[f]]
        ELSE 0]

\* packet = {'dateTime': packet_time}, then the fields of the sensor map
\* whose source is in the group
MapFields(pkt, packet_time) ==
    LET present == {f \in DOMAIN DEFAULT_SENSOR_MAP : DEFAULT_SENSOR_MAP[f] \in DOMAIN pkt}
    IN  [f \in present \cup {"dateTime"} |->
            IF f = "dateTime" THEN packet_time ELSE pkt[DEFAULT_SENSOR_MAP[f]]]

\* the generic sentinel is given the METRIC tag
SetUnits_GenericMetric(pkt_type, pkt, p) ==
    IF "base_units" \notin DOMAIN pkt THEN Raise("KeyError")
    ELSE LET base_units == pkt["base_units"]
         IN  IF base_units \in DOMAIN UNITS_MAP
             THEN Return(SetField(p, "usUnits", UNITS_MAP[base_units]))
             ELSE IF pkt_type = "wind" /\ base_units = "knots"
             THEN IF "windSpeed" \notin DOMAIN p \/ "windGust" \notin DOMAIN p
                  THEN Raise("KeyError")
                  ELSE Return(SetField(SetField(SetField(p, "usUnits", US),
                                  "windSpeed", KnotToMph(p["windSpeed"])),
                                  "windGust", KnotToMph(p["windGust"])))
             ELSE IF base_units = "generic"
             THEN Return(SetField(p, "usUnits", METRIC))
             ELSE Return(p)

\* lines 314-329: the unit system of the packet
SetUnits(pkt_type, pkt, p) ==
    IF "base_units" \notin DOMAIN pkt THEN Raise("KeyError")        \* pkt['base_units']
    ELSE LET base_units == pkt["base_units"]
         IN  IF base_units \in DOMAIN UNITS_MAP
             THEN Return(SetField(p, "usUnits", UNITS_MAP[base_units]))
             ELSE IF pkt_type = "wind" /\ base_units = "knots"
             THEN IF "windSpeed" \notin DOMAIN p \/ "windGust" \notin DOMAIN p
                  THEN Raise("KeyError")     \* packet['windSpeed'], packet['windGust']
                  ELSE Return(SetField(SetField(SetField(p, "usUnits", US),
                                  "windSpeed", KnotToMph(p["windSpeed"])),
                                  "windGust", KnotToMph(p["windGust"])))
             ELSE IF base_units = "generic"
             THEN Return(SetField(p, "usUnits", US))
             ELSE Return(p)

\* self.last_rain_total is stored before the delta is computed
CalculateRainDelta_StoreFirst(p, lrt) ==
    IF "rainTotal" \notin DOMAIN p THEN Raise("KeyError")
    ELSE Return([packet |-> SetField(p, "rain", calculate_rain(Some(p["rainTotal"]),
                                                              Some(p["rainTotal"]))),
                 last_rain_total |-> Some(p["rainTotal"])])

\* self._calculate_rain_delta(packet): the packet and self.last_rain_total afterwards
CalculateRainDelta(p, lrt) ==
    IF "rainTotal" \notin DOMAIN p THEN Raise("KeyError")           \* packet['rainTotal']
    ELSE Return([packet |-> SetField(p, "rain", calculate_rain(Some(p["rainTotal"]), lrt)),
                 last_rain_total |-> Some(p["rainTotal"])])

\* the record of a group that is not the rain group clears self.last_rain_total
BuildPacket_ClearTotal(pkt_type, pkt, packet_time, lrt) ==
    LET u == SetUnits(pkt_type, pkt, MapFields(pkt, packet_time))
    IN  IF u.raised # "none" THEN u
        ELSE IF pkt_type = "rain" THEN CalculateRainDelta(u.value[1], lrt)
        ELSE Return([packet |-> u.value[1], last_rain_total |-> None])

\* lines 308-332 for one group that is not withheld
BuildPacket(pkt_type, pkt, packet_time, lrt) ==
    LET u == SetUnits(pkt_type, pkt, MapFields(pkt, packet_time))
    IN  IF u.raised # "none" THEN u
        ELSE IF pkt_type = "rain" THEN CalculateRainDelta(u.value[1], lrt)
        ELSE Return([packet |-> u.value[1], last_rain_total |-> lrt])

----------------------------------------------------------------------------
(* Inputs: the documents the station serves *)

Doc(head, wf, children, keep, junk) ==
    [head |-> head, wf |-> wf, children |-> children, keep |-> keep, junk |-> junk]

\* a well-formed oriondata document with these children
Orion(children) == Doc("oriondata", TRUE, children, ClosingLen, <<>>)

WindSpeedMph == Elem("meas", "mtWindSpeed", "mph", "10.0")
WindSpeedKnots == Elem("meas", "mtWindSpeed", "knots", "10.0")
WindGust == Elem("meas", "mt2MinWindGustSpeed", "knots", "5.3")
WindDir == Elem("meas", "mtAdjWindDir", "degrees", "10.0")
TempC == Elem("meas", "mtTemp1", "degreeC", "10.0")
TempKelvin == Elem("meas", "mtTemp1", "kelvin", "10.0")
TempNoUnit == Elem("meas", "mtTemp1", Absent, "10.0")
TempEmpty == Elem("meas", "mtTemp1", "degreeC", "")
TempText == Elem("meas", "mtTemp1", "degreeC", "abc")
RainRate == Elem("meas", "mtRainRate", "inchesPerHour", "10.0")
RainTotal(text) == Elem("meas", "mtRainThisMonth", "inchesRain", text)
Humidity == Elem("meas", "mtRelHumidity", "percent", "10.0")
SampTime == Elem("meas", "mtSampTime", Absent, "abc")
Battery == Elem("meas", "mtBatteryVolts", "volts", "")
NoName == Elem("meas", Absent, Absent, "10.0")
NotMeas == Elem("info", "mtTemp1", "degreeC", "10.0")

Elements ==
    {WindSpeedMph, WindSpeedKnots, WindGust, WindDir, TempC, TempKelvin, TempNoUnit,
     TempEmpty, TempText, RainRate, RainTotal("5.0"), RainTotal("5.3"), Humidity,
     SampTime, Battery, NoName, NotMeas}

\* the sequences over S of length 0..n
SeqUpTo(S, n) == UNION {[1..k -> S] : k \in 0..n}

Heads == {"oriondata", "decl", "other"}

\* every shape of children under an intact closing tag, and every closing
\* sequence after a few fixed children
ParseDocs ==
    {Doc(h, wf, c, ClosingLen, <<>>) :
        h \in Heads, wf \in BOOLEAN, c \in SeqUpTo(Elements, MaxChildren)}
    \cup
    {Doc(h, TRUE, c, k, j) :
        h \in Heads, c \in {<<WindSpeedMph, TempC>>, <<SampTime>>},
        k \in 0..ClosingLen, j \in SeqUpTo({"NUL", "NL"}, MaxJunk)}

\* the documents served to the polling loop
LoopDocs ==
    {Orion(<<WindSpeedMph, TempC>>),
     Orion(<<RainRate, RainTotal("5.0")>>),
     Orion(<<RainRate, RainTotal("5.3")>>),
     Orion(<<WindSpeedKnots, WindGust>>),
     Orion(<<TempKelvin, WindSpeedMph>>),
     Orion(<<TempKelvin, WindDir>>),
     Orion(<<Humidity>>),
     Orion(<<SampTime>>),
     Orion(<<WindDir>>),
     Orion(<<WindSpeedKnots>>),
     Orion(<<RainRate>>),
     Orion(<<TempText>>),
     Orion(<<TempEmpty>>),
     Orion(<<NoName>>),
     Orion(<<>>),
     Orion(<<NotMeas>>),
     Doc("other", TRUE, <<TempC>>, ClosingLen, <<>>),
     Doc("oriondata", FALSE, <<>>, ClosingLen, <<>>),
     Doc("oriondata", TRUE, <<WindSpeedMph, TempC>>, OriLen, <<"NUL">>),
     Doc("oriondata", TRUE, <<WindSpeedMph, TempC>>, OriLen - 1, <<"NUL">>)}

----------------------------------------------------------------------------
(* ColumbiaMicroServerDriver.genLoopPackets                                  *)
(*                                                                          *)
(* pc  "get"         line 285, before get_data and parse_data               *)
(*     "wait_quick"  line 294, inside _wait_for_next_poll_interval          *)
(*     "wait_slow"   line 297, inside _wait_for_next_poll_interval          *)
(*     "for"         line 301, at item idx of pkt_grp.items()               *)
(*     "yield"       line 333, suspended, packet is with the consumer       *)
(*     "wait_next"   line 335, inside _wait_for_next_poll_interval          *)
(*     "sleep"       line 336                                               *)
(*     "raised"      an exception left the generator                        *)

\* configurations of the polling loop: <<polls_per_minute, poll_lead_seconds>>
LoopConfigs == {<<4, 5>>, <<2, 0>>}

\* hist.last_wait: what the last call of _wait_for_next_poll_interval returned
\* hist.advanced: the clock moved since the running code last reached line 285
NoHist == [emitted |-> <<>>, fails |-> 0, cycle |-> 0, rain_seen |-> None,
           where |-> "", waited |-> 0, last_wait |-> None, advanced |-> FALSE]

Init ==
    /\ \E c \in LoopConfigs : polls_per_minute = c[1] /\ poll_lead_seconds = c[2]
    /\ quick_retries \in 0..MaxQuick
    /\ last_rain_total = None
    /\ now \in 0..(Period(polls_per_minute) - 1)
    /\ pc = "get"
    /\ pkt_grp = None
    /\ ntries = 0
    /\ last_poll_this_minute = TRUE
    /\ idx = 0
    /\ packet = None
    /\ raised = "none"
    /\ data = None
    /\ result = None
    /\ hist = NoHist

config == <<polls_per_minute, poll_lead_seconds, quick_retries>>

\* what one attempt (lines 285-287) can return or raise
LoopOutcomes == {Retrieve(resp, d) : resp \in Responses, d \in LoopDocs}

\* a failed attempt that is not counted
NextTries_NotCounted(n) == n

\* ntries += 1
NextTries(n) == n + 1

\* the budget compared with < instead of <=
UseQuickRetry_Strict(n, q) == n < q

\* if ntries <= self.quick_retries
UseQuickRetry(n, q) == n <= q

\* lines 285-288: retrieval and parse succeed
AttemptOk ==
    /\ pc = "get"
    /\ \E r \in LoopOutcomes :
          /\ r.raised = "none"
          /\ pkt_grp' = r.value
    /\ ntries' = 0
    /\ idx' = 1
    /\ pc' = "for"
    /\ hist' = [hist EXCEPT !.emitted = <<>>, !.fails = 0,
                            !.cycle = IF @ < 2 THEN @ + 1 ELSE @]
    /\ UNCHANGED <<config, last_rain_total, now, last_poll_this_minute, packet,
                   raised, data, result>>

\* the except clause without its continue: after a failure the for loop runs
\* over the groups kept from the last successful cycle
AttemptFail_FallThrough ==
    /\ pc = "get"
    /\ ntries < MaxTries
    /\ \E r \in LoopOutcomes : r.raised = "WeeWxIOError"
    /\ ntries' = NextTries(ntries)
    /\ IF pkt_grp = None
       THEN /\ pc' = IF UseQuickRetry(ntries', quick_retries)
                     THEN "wait_quick" ELSE "wait_slow"
            /\ idx' = idx
       ELSE /\ pc' = "for"
            /\ idx' = 1
    /\ hist' = [hist EXCEPT !.fails = @ + 1]
    /\ UNCHANGED <<config, last_rain_total, now, pkt_grp, last_poll_this_minute,
                   packet, raised, data, result>>

\* lines 289-299: except weewx.WeeWxIOError
AttemptFail ==
    /\ pc = "get"
    /\ ntries < MaxTries
    /\ \E r \in LoopOutcomes : r.raised = "WeeWxIOError"
    /\ ntries' = NextTries(ntries)
    /\ pc' = IF UseQuickRetry(ntries', quick_retries) THEN "wait_quick" ELSE "wait_slow"
    /\ hist' = [hist EXCEPT !.fails = @ + 1]
    /\ UNCHANGED <<config, last_rain_total, now, pkt_grp, last_poll_this_minute, idx,
                   packet, raised, data, result>>

\* an exception of another class is not caught by the generator
AttemptRaise ==
    /\ pc = "get"
    /\ \E r \in LoopOutcomes :
          /\ r.raised \notin {"none", "WeeWxIOError"}
          /\ raised' = r.raised
    /\ pc' = "raised"
    /\ hist' = [hist EXCEPT !.where = "get"]
    /\ UNCHANGED <<config, last_rain_total, now, pkt_grp, ntries, last_poll_this_minute,
                   idx, packet, data, result>>

\* time passes while the request is served, and between two items of the for
\* loop while the consumer holds the packet of the first
Elapse ==
    /\ pc \in {"get", "for"}
    /\ now' = Tick(now)
    /\ hist' = [hist EXCEPT !.advanced = TRUE]
    /\ UNCHANGED <<config, last_rain_total, pc, pkt_grp, ntries, last_poll_this_minute,
                   idx, packet, raised, data, result>>

\* _wait_for_next_poll_interval: time.sleep(0.5) until the condition of the loop fails
WaitSleep ==
    /\ pc \in {"wait_quick", "wait_slow", "wait_next"}
    /\ ~IsPollInstant(now, poll_lead_seconds, polls_per_minute)
    /\ now' = Tick(now)
    /\ hist' = [hist EXCEPT !.advanced = TRUE]
    /\ UNCHANGED <<config, last_rain_total, pc, pkt_grp, ntries, last_poll_this_minute,
                   idx, packet, raised, data, result>>

\* line 294: the wait returns, its value is dropped; continue
QuickReturn ==
    /\ pc = "wait_quick"
    /\ IsPollInstant(now, poll_lead_seconds, polls_per_minute)
    /\ pc' = "get"
    /\ hist' = [hist EXCEPT !.last_wait = Some(IsLastPoll(now, poll_lead_seconds)),
                            !.advanced = FALSE]
    /\ UNCHANGED <<config, last_rain_total, now, pkt_grp, ntries, last_poll_this_minute,
                   idx, packet, raised, data, result>>

\* line 297: the wait returns True, the while loop ends; continue
SlowReturn ==
    /\ pc = "wait_slow"
    /\ IsPollInstant(now, poll_lead_seconds, polls_per_minute)
    /\ IsLastPoll(now, poll_lead_seconds)
    /\ pc' = "get"
    /\ hist' = [hist EXCEPT !.last_wait = Some(TRUE), !.advanced = FALSE]
    /\ UNCHANGED <<config, last_rain_total, now, pkt_grp, ntries, last_poll_this_minute,
                   idx, packet, raised, data, result>>

\* line 297: the wait returns False and is called again, at once, for as long
\* as the clock shows this second
SlowAgain ==
    /\ pc = "wait_slow"
    /\ IsPollInstant(now, poll_lead_seconds, polls_per_minute)
    /\ ~IsLastPoll(now, poll_lead_seconds)
    /\ now' = Tick(now)
    /\ hist' = [hist EXCEPT !.last_wait = Some(FALSE), !.advanced = TRUE]
    /\ UNCHANGED <<config, last_rain_total, pc, pkt_grp, ntries, last_poll_this_minute,
                   idx, packet, raised, data, result>>

\* line 301: the for loop has no item left
ForEnd ==
    /\ pc = "for"
    /\ idx > Len(pkt_grp[1])
    /\ pc' = "wait_next"
    /\ UNCHANGED <<config, last_rain_total, now, pkt_grp, ntries, last_poll_this_minute,
                   idx, packet, raised, data, result, hist>>

\* lines 306-307: the group is withheld
ForWithheld ==
    /\ pc = "for"
    /\ idx <= Len(pkt_grp[1])
    /\ Withheld(pkt_grp[1][idx].type, last_poll_this_minute)
    /\ idx' = idx + 1
    /\ UNCHANGED <<config, last_rain_total, now, pc, pkt_grp, ntries,
                   last_poll_this_minute, packet, raised, data, result, hist>>

\* lines 303-333: the packet of the group is built and yielded;
\* packet_time = int(time.time() + 0.5) rounds the clock up in the second half
\* of a second
ForYield ==
    /\ pc = "for"
    /\ idx <= Len(pkt_grp[1])
    /\ ~Withheld(pkt_grp[1][idx].type, last_poll_this_minute)
    /\ \E half \in {0, 1} :
          LET g == pkt_grp[1][idx]
              r == BuildPacket(g.type, g.pkt, now + half, last_rain_total)
          IN  /\ r.raised = "none"
              /\ packet' = Some(r.value[1].packet)
              /\ last_rain_total' = r.value[1].last_rain_total
              /\ hist' = [hist EXCEPT !.emitted = Append(@, g.type),
                                      !.rain_seen = IF g.type = "rain"
                                                    THEN Some(r.value[1].packet["rainTotal"])
                                                    ELSE @]
    /\ pc' = "yield"
    /\ UNCHANGED <<config, now, pkt_grp, ntries, last_poll_this_minute, idx, raised,
                   data, result>>

\* lines 314, 322, 323, 350: a key is missing, the KeyError leaves the generator
ForRaise ==
    /\ pc = "for"
    /\ idx <= Len(pkt_grp[1])
    /\ ~Withheld(pkt_grp[1][idx].type, last_poll_this_minute)
    /\ LET g == pkt_grp[1][idx]
           r == BuildPacket(g.type, g.pkt, now, last_rain_total)
       IN  /\ r.raised # "none"
           /\ raised' = r.raised
    /\ pc' = "raised"
    /\ hist' = [hist EXCEPT !.where = "for"]
    /\ UNCHANGED <<config, last_rain_total, now, pkt_grp, ntries, last_poll_this_minute,
                   idx, packet, data, result>>

\* the consumer asks for the next packet: the for loop goes on
Resume ==
    /\ pc = "yield"
    /\ pc' = "for"
    /\ idx' = idx + 1
    /\ packet' = None
    /\ UNCHANGED <<config, last_rain_total, now, pkt_grp, ntries, last_poll_this_minute,
                   raised, data, result, hist>>

\* line 335: last_poll_this_minute = self._wait_for_next_poll_interval()
NextReturn ==
    /\ pc = "wait_next"
    /\ IsPollInstant(now, poll_lead_seconds, polls_per_minute)
    /\ last_poll_this_minute' = IsLastPoll(now, poll_lead_seconds)
    /\ pc' = "sleep"
    /\ hist' = [hist EXCEPT !.last_wait = Some(IsLastPoll(now, poll_lead_seconds))]
    /\ UNCHANGED <<config, last_rain_total, now, pkt_grp, ntries, idx, packet, raised,
                   data, result>>

\* line 336: time.sleep(1.0)
Sleep ==
    /\ pc = "sleep"
    /\ now' = Tick(now)
    /\ pc' = "get"
    /\ hist' = [hist EXCEPT !.advanced = FALSE]
    /\ UNCHANGED <<config, last_rain_total, pkt_grp, ntries, last_poll_this_minute, idx,
                   packet, raised, data, result>>

Next ==
    \/ AttemptOk \/ AttemptFail \/ AttemptRaise \/ Elapse
    \/ WaitSleep \/ QuickReturn \/ SlowReturn \/ SlowAgain
    \/ ForEnd \/ ForWithheld \/ ForYield \/ ForRaise \/ Resume
    \/ NextReturn \/ Sleep

Spec == Init /\ [][Next]_vars

----------------------------------------------------------------------------
(* The scheduler on its own: one call of _wait_for_next_poll_interval, made  *)
(* at any second, under every configuration.  hist.waited counts the seconds *)
(* the call has slept through.                                               *)

SchedInit ==
    /\ polls_per_minute \in 1..60
    /\ poll_lead_seconds \in 0..59
    /\ quick_retries = 0
    /\ last_rain_total = None
    /\ now \in 0..(Period(polls_per_minute) - 1)
    /\ pc = "sched_wait"
    /\ pkt_grp = None
    /\ ntries = 0
    /\ last_poll_this_minute = TRUE
    /\ idx = 0
    /\ packet = None
    /\ raised = "none"
    /\ data = None
    /\ result = None
    /\ hist = NoHist

\* lines 343-344: the condition of the while loop holds, time.sleep(0.5)
SchedSleep ==
    /\ pc = "sched_wait"
    /\ ~IsPollInstant(now, poll_lead_seconds, polls_per_minute)
    /\ now' = Tick(now)
    /\ hist' = [hist EXCEPT !.waited = @ + 1]
    /\ UNCHANGED <<config, last_rain_total, pc, pkt_grp, ntries, last_poll_this_minute,
                   idx, packet, raised, data, result>>

\* lines 345-346: the loop is left, the call returns
SchedReturn ==
    /\ pc = "sched_wait"
    /\ IsPollInstant(now, poll_lead_seconds, polls_per_minute)
    /\ result' = Some(IsLastPoll(now, poll_lead_seconds))
    /\ pc' = "sched_done"
    /\ UNCHANGED <<config, last_rain_total, now, pkt_grp, ntries, last_poll_this_minute,
                   idx, packet, raised, data, hist>>

SchedNext == SchedSleep \/ SchedReturn

SchedSpec == SchedInit /\ [][SchedNext]_vars

----------------------------------------------------------------------------
(* The parser on its own: one call of parse_data on any document *)

ParseInit ==
    /\ polls_per_minute = 4
    /\ poll_lead_seconds = 5
    /\ quick_retries = 0
    /\ last_rain_total = None
    /\ now = 0
    /\ pc = "parse_call"
    /\ pkt_grp = None
    /\ ntries = 0
    /\ last_poll_this_minute = TRUE
    /\ idx = 0
    /\ packet = None
    /\ raised = "none"
    /\ \E d \in ParseDocs : data = Some(d)
    /\ result = None
    /\ hist = NoHist

ParseCall ==
    /\ pc = "parse_call"
    /\ LET r == parse_data(data[1])
       IN  /\ result' = r.value
           /\ raised' = r.raised
    /\ pc' = "parse_done"
    /\ UNCHANGED <<config, last_rain_total, now, pkt_grp, ntries, last_poll_this_minute,
                   idx, packet, data, hist>>

ParseNext == ParseCall

ParseSpec == ParseInit /\ [][ParseNext]_vars

----------------------------------------------------------------------------
(* The retrieval on its own: one call of get_data, under every behaviour of *)
(* the server and every body it can send.  data holds the request's fate.   *)

GetInit ==
    /\ polls_per_minute = 4
    /\ poll_lead_seconds = 5
    /\ quick_retries = 0
    /\ last_rain_total = None
    /\ now = 0
    /\ pc = "get_call"
    /\ pkt_grp = None
    /\ ntries = 0
    /\ last_poll_this_minute = TRUE
    /\ idx = 0
    /\ packet = None
    /\ raised = "none"
    /\ \E resp \in Responses, d \in LoopDocs : data = Some([resp |-> resp, doc |-> d])
    /\ result = None
    /\ hist = NoHist

GetCall ==
    /\ pc = "get_call"
    /\ LET r == get_data(data[1].resp, data[1].doc)
       IN  /\ result' = r.value
           /\ raised' = r.raised
    /\ pc' = "get_done"
    /\ UNCHANGED <<config, last_rain_total, now, pkt_grp, ntries, last_poll_this_minute,
                   idx, packet, data, hist>>

GetNext == GetCall

GetSpec == GetInit /\ [][GetNext]_vars

----------------------------------------------------------------------------
(* The slow retry on its own: the loop of line 297, entered at any second   *)
(* after a failure, under every configuration whose polls_per_minute        *)
(* divides 60.  The clock goes on and the loop is scheduled for ever.       *)

SlowInit ==
    /\ polls_per_minute \in {N \in 1..60 : 60 % N = 0}
    /\ poll_lead_seconds \in 0..59
    /\ quick_retries = 0
    /\ last_rain_total = None
    /\ now \in 0..(Period(polls_per_minute) - 1)
    /\ pc = "wait_slow"
    /\ pkt_grp = None
    /\ ntries = 1
    /\ last_poll_this_minute = TRUE
    /\ idx = 0
    /\ packet = None
    /\ raised = "none"
    /\ data = None
    /\ result = None
    /\ hist = [NoHist EXCEPT !.fails = 1]

SlowNext == WaitSleep \/ SlowAgain \/ SlowReturn

SlowSpec == SlowInit /\ [][SlowNext]_vars /\ WF_vars(SlowNext)

----------------------------------------------------------------------------
(* Properties *)

\* the for loop of the current cycle is over: it ran to its end, or an
\* exception of the loop body left the generator
CycleOver == pc = "wait_next" \/ (pc = "raised" /\ hist.where = "for")

\* the types of the groups of the current cycle
GroupTypes == {pkt_grp[1][i].type : i \in 1..Len(pkt_grp[1])}

Emitted == {hist.emitted[i] : i \in 1..Len(hist.emitted)}

\* C1: in every cycle whose retrieval and parse succeeded, the wind group is
\* emitted whatever the minute-final flag, and a group of another class is
\* emitted if and only if the cycle is flagged minute-final.
C1_Gating ==
    CycleOver =>
        \A t \in GroupTypes : (t \in Emitted) <=> (t = "wind" \/ last_poll_this_minute)

\* C2: after the k-th consecutive failure the generator retries at the next
\* poll instant, final or not, if k <= quick_retries, and only at a poll
\* instant in the minute-final window if k > quick_retries; it never sleeps
\* past the instant it waits for.  With quick_retries = 0 the first failure
\* takes the slow path.
C2_RetryTiers ==
    [][LET I == 60 \div polls_per_minute
           instant == (now + poll_lead_seconds) % I = 0
           final == (now % 60) \in (59 - poll_lead_seconds)..(61 - poll_lead_seconds)
       IN  /\ (pc = "get" /\ pc' = "wait_quick") => ntries' <= quick_retries
           /\ (pc = "get" /\ pc' = "wait_slow") => ntries' > quick_retries
           /\ (pc = "get" /\ ntries' > ntries) => pc' \in {"wait_quick", "wait_slow"}
           /\ (pc = "get" /\ ntries' > ntries /\ quick_retries = 0) => pc' = "wait_slow"
           /\ pc = "wait_quick" => /\ pc' \in {"wait_quick", "get"}
                                   /\ pc' = "get" => instant /\ now' = now
                                   /\ now' # now => ~instant
           /\ pc = "wait_slow" => /\ pc' \in {"wait_slow", "get"}
                                  /\ pc' = "get" => instant /\ final /\ now' = now
                                  /\ now' # now => ~(instant /\ final)]_vars

\* a retry is made after a slow wait that followed the quick retries
C2_Witness == pc = "get" /\ quick_retries > 0 /\ ntries > quick_retries

\* C3: however many attempts fail, the generator does not end and raises
\* nothing to its consumer: no attempt ends with an exception leaving it.
C3_NeverRaises == ~(pc = "raised" /\ hist.where = "get")

\* C4: ntries is 0 at start, grows by one with each failed attempt and is 0
\* after each success: it is the number of failed attempts since the last
\* success (hist.fails), and the first failure after a success is a quick
\* retry when the budget is not 0.
C4_FailureCount ==
    /\ [](ntries = hist.fails)
    /\ [][/\ (pc = "get" /\ pc' = "for") => ntries' = 0
          /\ (pc = "get" /\ pc' \in {"wait_quick", "wait_slow"}) => ntries' = ntries + 1
          /\ (pc = "get" /\ pc' \in {"wait_quick", "wait_slow"} /\ hist.fails = 0
                /\ quick_retries >= 1) => pc' = "wait_quick"]_vars

\* a first failure after a success that itself came after failures is a quick retry
C4_Witness == pc = "wait_quick" /\ ntries = 1 /\ hist.cycle >= 1

\* C5: the first successful cycle after start emits every group of its document.
C5_ColdStart ==
    (hist.cycle = 1 /\ CycleOver) => \A t \in GroupTypes : t \in Emitted

\* C6: each rain emission computes the increment from its rainTotal and the
\* last_rain_total left by the rain emission before it (hist.rain_seen, None
\* when there was none), and then sets last_rain_total to its rainTotal:
\* after 5.0, a total of 5.3 gives 0.3.
C6_RainDelta ==
    /\ [](last_rain_total = hist.rain_seen)
    /\ [][(pc = "for" /\ pc' = "yield" /\ pkt_grp[1][idx].type = "rain") =>
            LET total == packet'[1]["rainTotal"]
                rain == packet'[1]["rain"]
            IN  /\ total = pkt_grp[1][idx].pkt["mtRainThisMonth"]
                /\ rain = IF hist.rain_seen = None THEN None
                          ELSE IF total >= hist.rain_seen[1]
                               THEN Some(total - hist.rain_seen[1]) ELSE None
                /\ (hist.rain_seen = Some(50) /\ total = 53) => rain = Some(3)
                /\ last_rain_total' = Some(total)]_vars

\* the rain record of 5.3 that follows the one of 5.0
C6_Witness ==
    /\ pc = "yield"
    /\ "rain" \in DOMAIN packet[1]
    /\ packet[1]["rain"] = Some(3)
    /\ last_rain_total = Some(53)

\* C7: with 4 polls per minute and a lead of 5 seconds the wait returns at
\* the seconds 10, 25, 40 and 55 of the minute, at none other and skipping
\* none of them, and its value is true at second 55 only.
C7_FourInstants ==
    (polls_per_minute = 4 /\ poll_lead_seconds = 5 /\ pc = "sched_done") =>
        /\ (now % 60) \in {10, 25, 40, 55}
        /\ \A k \in 1..hist.waited : ((now + 60 - k) % 60) \notin {10, 25, 40, 55}
        /\ result = Some((now % 60) = 55)

\* the wait slept and returned at the minute-final instant
C7_Witness ==
    /\ polls_per_minute = 4 /\ poll_lead_seconds = 5 /\ pc = "sched_done"
    /\ hist.waited > 0 /\ result = Some(TRUE)

\* the second-of-minute of the return lies in {60-L-1, 60-L, 60-L+1}
InWindow == (now % 60) \in {60 - poll_lead_seconds - 1, 60 - poll_lead_seconds,
                            60 - poll_lead_seconds + 1}

C9_OnlyIOError == pc = "parse_done" => raised \in {"none", "WeeWxIOError"}

\* C10: parse_data returns groups only when the root is oriondata and its
\* first child is a meas element, and raises WeeWxIOError for every other
\* document.
C10_RootAndFirstChild ==
    pc = "parse_done" =>
        LET d == data[1]
            shape == /\ RootTag(d) = "oriondata"
                     /\ d.children # <<>>
                     /\ d.children[1].tag = "meas"
        IN  /\ raised = "none" => shape
            /\ ~shape => raised = "WeeWxIOError"

\* C11: get_data returns the text only when the request was opened and the
\* status is 200, and every other outcome is raised as WeeWxIOError.
C11_OnlyTransportError ==
    pc = "get_done" =>
        LET resp == data[1].resp
        IN  /\ raised = "none" => (resp.open = "ok" /\ resp.code = 200)
            /\ raised \in {"none", "WeeWxIOError"}

\* the group the for loop is at
Group == pkt_grp[1][idx]

\* the body of the for loop has just ended for the group Group: it yielded a
\* packet or an exception left it
BodyOver == pc = "yield" \/ (pc = "raised" /\ hist.where = "for")

\* C12: a wind group whose base unit is knots is emitted with the US tag and
\* with each speed it holds (wind speed, gust speed) converted from knots to
\* miles per hour, whatever subset of the wind measurements it holds; the
\* directions are not converted.
C12_KnotsToMph ==
    (BodyOver /\ Group.type = "wind" /\ "mtWindSpeed" \in DOMAIN Group.pkt
              /\ Group.pkt["base_units"] = "knots") =>
        /\ pc = "yield"
        /\ packet[1]["usUnits"] = US
        /\ packet[1]["windSpeed"] = (Group.pkt["mtWindSpeed"] * 1150779) \div 1000000
        /\ "mt2MinWindGustSpeed" \in DOMAIN Group.pkt =>
               packet[1]["windGust"] =
                   (Group.pkt["mt2MinWindGustSpeed"] * 1150779) \div 1000000
        /\ "mtAdjWindDir" \in DOMAIN Group.pkt =>
               packet[1]["windDir"] = Group.pkt["mtAdjWindDir"]

\* the base unit of the group is there, and lines 315-327 resolve no tag for it
UnknownUnit(g) ==
    /\ "base_units" \in DOMAIN g.pkt
    /\ g.pkt["base_units"] \notin DOMAIN UNITS_MAP
    /\ g.pkt["base_units"] # "generic"
    /\ ~(g.type = "wind" /\ g.pkt["base_units"] = "knots")

\* C13: a group that passes the gate and whose base unit is present but
\* resolves to no tag is still emitted, with its mapped fields and its
\* timestamp and without usUnits; the other groups of the cycle are emitted
\* too, and the loop goes on to the next poll with no failure counted.
C13_UnknownUnitEmitted ==
    LET eligible(g) == ~Withheld(g.type, last_poll_this_minute)
    IN  /\ (BodyOver /\ UnknownUnit(Group)) =>
              /\ pc = "yield"
              /\ "usUnits" \notin DOMAIN packet[1]
              /\ "dateTime" \in DOMAIN packet[1]
              /\ \A f \in DOMAIN DEFAULT_SENSOR_MAP :
                    DEFAULT_SENSOR_MAP[f] \in DOMAIN Group.pkt =>
                        /\ f \in DOMAIN packet[1]
                        /\ packet[1][f] = Group.pkt[DEFAULT_SENSOR_MAP[f]]
        /\ (CycleOver /\ \E i \in 1..Len(pkt_grp[1]) :
                            UnknownUnit(pkt_grp[1][i]) /\ eligible(pkt_grp[1][i])) =>
              /\ pc = "wait_next"
              /\ ntries = 0
              /\ \A i \in 1..Len(pkt_grp[1]) :
                    eligible(pkt_grp[1][i]) => pkt_grp[1][i].type \in Emitted

\* C14: the usUnits tag of an emitted record is a function of the class of its
\* group and of the base unit of the group alone: the value of UNITS_MAP for a
\* base unit of the table, US for the generic sentinel; it is one of US,
\* METRIC and METRICWX; and emitting the record leaves the failure count and
\* the minute-final flag as they were, and last_rain_total too unless the
\* record is a rain record.
C14_TagFunction ==
    /\ [](pc = "yield" =>
            LET bu == Group.pkt["base_units"]
                tag == IF bu \in DOMAIN UNITS_MAP THEN Some(UNITS_MAP[bu])
                       ELSE IF bu = "generic" THEN Some(US)
                       ELSE IF Group.type = "wind" /\ bu = "knots" THEN Some(US)
                       ELSE None
            IN  /\ ("usUnits" \in DOMAIN packet[1]) = (tag # None)
                /\ "usUnits" \in DOMAIN packet[1] =>
                      /\ packet[1]["usUnits"] = tag[1]
                      /\ packet[1]["usUnits"] \in {US, METRIC, METRICWX})
    /\ [][(pc = "for" /\ pc' = "yield") =>
            /\ ntries' = ntries
            /\ last_poll_this_minute' = last_poll_this_minute
            /\ Group.type # "rain" => last_rain_total' = last_rain_total]_vars

\* a record of the generic group was emitted with the US tag, in a second
\* cycle, after a rain record
C14_Witness ==
    /\ pc = "yield" /\ Group.type = "generic" /\ packet[1]["usUnits"] = US
    /\ hist.cycle = 2 /\ last_rain_total # None

\* the document whose closing sequence is the intact closing tag
Intact(d) == [d EXCEPT !.keep = ClosingLen, !.junk = <<>>]

\* what the call of the parser specification returned or raised
Outcome == [raised |-> raised, value |-> result]

Unrecognized(child) ==
    child.name # Absent /\ child.name \notin DOMAIN XML_INPUT_ELEMENTS

\* the document d without its child i
WithoutChild(d, i) ==
    [d EXCEPT !.children = SubSeq(d.children, 1, i - 1)
                           \o SubSeq(d.children, i + 1, Len(d.children))]

\* C16: an element whose name is not in the table, whatever its text, its unit
\* attribute and its place after the first child, changes nothing to what
\* parse_data returns or raises; and every measurement of the result is in the
\* one group the table gives to its name.
C16_UnknownSkipped ==
    pc = "parse_done" =>
        LET d == data[1]
        IN  /\ \A i \in 2..Len(d.children) :
                  Unrecognized(d.children[i]) => Outcome = parse_data(WithoutChild(d, i))
            /\ raised = "none" =>
                  LET grp == result[1]
                  IN  /\ \A i, j \in 1..Len(grp) : grp[i].type = grp[j].type => i = j
                      /\ \A i \in 1..Len(grp) :
                            \A k \in (DOMAIN grp[i].pkt) \ {"base_units"} :
                                XML_INPUT_ELEMENTS[k] = grp[i].type
                      /\ \A c \in 1..Len(d.children) :
                            LET child == d.children[c]
                            IN  (child.tag = "meas"
                                 /\ child.name \in DOMAIN XML_INPUT_ELEMENTS) =>
                                   \E i \in 1..Len(grp) :
                                      /\ grp[i].type = XML_INPUT_ELEMENTS[child.name]
                                      /\ child.name \in DOMAIN grp[i].pkt

\* a document with a measurement followed by an empty element of an unknown
\* name was parsed into the group of the measurement
C16_Witness ==
    /\ pc = "parse_done" /\ raised = "none"
    /\ data[1].children = <<TempC, Battery>>
    /\ Len(result[1]) = 1 /\ result[1][1].type = "temp"

\* C17: an emitted record holds the timestamp, one field for each output
\* field of the sensor map whose source is in the group, with the value parsed
\* for that source (the speeds of a group in knots apart, which are
\* converted), the usUnits tag when one is resolved and the rain increment
\* when the group is the rain group, and nothing else: no field whose source
\* belongs to another group, no field whose source is absent.
C17_ExactFields ==
    pc = "yield" =>
        LET g == Group
            p == packet[1]
            present == {f \in DOMAIN DEFAULT_SENSOR_MAP :
                            DEFAULT_SENSOR_MAP[f] \in DOMAIN g.pkt}
            bu == g.pkt["base_units"]
            knots == g.type = "wind" /\ bu = "knots"
            resolved == bu \in DOMAIN UNITS_MAP \/ bu = "generic" \/ knots
        IN  /\ DOMAIN p = {"dateTime"} \cup present
                          \cup (IF resolved THEN {"usUnits"} ELSE {})
                          \cup (IF g.type = "rain" THEN {"rain"} ELSE {})
            /\ p["dateTime"] \in {now, now + 1}
            /\ \A f \in present :
                  /\ XML_INPUT_ELEMENTS[DEFAULT_SENSOR_MAP[f]] = g.type
                  /\ p[f] = IF knots /\ f \in {"windSpeed", "windGust"}
                            THEN (g.pkt[DEFAULT_SENSOR_MAP[f]] * 1150779) \div 1000000
                            ELSE g.pkt[DEFAULT_SENSOR_MAP[f]]

\* a record of a rain group with its rate and its total was emitted: five
\* fields
C17_Witness ==
    /\ pc = "yield" /\ Group.type = "rain"
    /\ DOMAIN packet[1] = {"dateTime", "rainRate", "rainTotal", "usUnits", "rain"}

\* C18: last_rain_total changes only when a record of the rain group is
\* emitted, and then to the total of that record; a failed attempt, a retry
\* wait, a cycle whose rain group is withheld and the emission of a record of
\* another group leave it as it was.
C18_RainTotalFrame ==
    [][last_rain_total' # last_rain_total =>
          /\ pc = "for" /\ pc' = "yield"
          /\ Group.type = "rain"
          /\ last_rain_total' = Some(packet'[1]["rainTotal"])]_vars

\* after a rain record stored the total 5.3, attempts failed and the loop is
\* in a slow retry wait, the total still stored
C18_Witness ==
    /\ pc = "wait_slow" /\ hist.fails > 0
    /\ last_rain_total = Some(53)

\* C19: the minute-final flag that gates the groups of a successful cycle is
\* what the last scheduler wait before the retrieval of that cycle returned,
\* the waits made while retrying included.
C19_FlagFromLastWait ==
    (pc \in {"for", "yield"} /\ hist.last_wait # None) =>
        last_poll_this_minute = hist.last_wait[1]

\* C20: no two retrieval attempts start within the same second: between the
\* start of an attempt and the start of the next one the clock advances.
C20_DistinctSeconds ==
    [][(pc # "get" /\ pc' = "get") => (hist.advanced \/ now' # now)]_vars

\* C21: for every configuration with polls_per_minute dividing 60 and
\* poll_lead_seconds in 0..59, every minute holds a poll instant that is
\* flagged minute-final, so that the slow retry wait, whenever it is entered,
\* returns in the end.
C21_SlowWaitReturns == (pc = "wait_slow") ~> (pc = "get")

\* C22: for every document parse_data accepts, every group of the result has
\* a base_units entry, the generator builds the record of every group that
\* passes the gate without raising, and the record of a rain group has its
\* rain increment.
C22_NoMissingKey ==
    /\ pkt_grp # None =>
          \A i \in 1..Len(pkt_grp[1]) : "base_units" \in DOMAIN pkt_grp[1][i].pkt
    /\ ~(pc = "raised" /\ hist.where = "for")
    /\ (pc = "yield" /\ Group.type = "rain") => "rain" \in DOMAIN packet[1]

\* C23: every emitted record is built from a group of the document retrieved
\* and parsed in the same cycle: the for loop runs only after a successful
\* attempt, over the groups that attempt stored, each group once; a failed
\* attempt stores no groups and emits nothing, and the groups kept from an
\* earlier cycle are not emitted again after it.
C23_GroupsOfThisCycle ==
    /\ [](pc \in {"for", "yield"} => (ntries = 0 /\ hist.fails = 0))
    /\ [](pc = "yield" =>
            /\ Len(hist.emitted) <= idx
            /\ hist.emitted[Len(hist.emitted)] = Group.type
            /\ \A f \in (DOMAIN packet[1]) \cap (DOMAIN DEFAULT_SENSOR_MAP) :
                  DEFAULT_SENSOR_MAP[f] \in DOMAIN Group.pkt)
    /\ [][ /\ pkt_grp' # pkt_grp => (pc = "get" /\ pc' = "for" /\ idx' = 1)
           /\ (pc = "get" /\ pc' = "for") => hist'.emitted = <<>>
           /\ (pc = "get" /\ pc' # "for") =>
                  (pkt_grp' = pkt_grp /\ packet' = None /\ hist'.emitted = hist.emitted)
           /\ hist'.emitted # hist.emitted =>
                  \/ pc = "get" /\ pc' = "for"
                  \/ pc = "for" /\ pc' = "yield" /\ idx' = idx
           /\ (pc = "for" /\ pc' = "for") => idx' >= idx ]_vars

\* after a cycle that emitted the two groups of its document an attempt
\* failed: the groups are kept, nothing is emitted
C23_Witness ==
    /\ pc = "wait_quick" /\ ntries = 1
    /\ pkt_grp # None /\ Len(pkt_grp[1]) = 2
    /\ hist.emitted = <<"wind", "temp">>
    /\ packet = None

====
